---- MODULE Spec2Model ----
(***************************************************************************)
(* GoogleMapsBusinessScraper (puppeteer / puppeteer-cluster version):      *)
(* one scraper instance handling one scrapeBusinesses call.  The browser,  *)
(* the page DOM and the detail pages are the environment: each page        *)
(* operation either returns a value drawn from a small set or throws.      *)
(* Spec is a call on an instance built with options of the caller's        *)
(* choice; SpecApi is a POST /api/scrape-gmaps request, whose handler      *)
(* validates the body, builds the instance, calls it and responds.         *)
(***************************************************************************)
EXTENDS Integers, Sequences, FiniteSets, TLC

\* ---------------------------------------------------------------- bounds
MaxResults == 2
MaxConcurrency == 2
MaxLinks == 3
MaxFeed == 2
MaxScrollAttempts == 2

\* ------------------------------------------------------- program constants
StdMaxConsecutiveFailures == 2
ProMaxConsecutiveFailures == 3

\* the endpoint (part_004), lines 68, 80 and 89
MaxAllowedResults == 500
ProConcurrency == 6
StdConcurrency == 1
ProScrollAttempts == 15
StdScrollAttempts == 10

NotFound == "Not Found"
URLS == {"u1", "u2"}
Outcomes == {"ok", "notfound", "error"}

VARIABLES
    options,        \* this.options: proMode, useParallel, maxConcurrency, maxScrollAttempts
    maxResults,     \* argument of scrapeBusinesses
    pc,             \* position of the scrapeBusinesses call
    phase,          \* strategy currently executing: "none", "par", "seq"
    stats,          \* this.stats
    results,        \* this.results
    browser,        \* this.browser of scrapeSequential: "none", "open", "closed"
    cluster,        \* worker cluster: "none", "open", "closed"
    clusterRef,     \* this.cluster is non-null
    discBrowser,    \* browser of getBusinessUrlsSequential: "none", "open", "closed"
    feed,           \* number of .Nv2PK elements in the page
    scrollAttempts, \* local of handleInfiniteScroll
    consecutiveFailures, \* local of handleInfiniteScroll
    businessUrls,   \* the discovery snapshot
    i,              \* loop index of the dispatch loop
    parResults,     \* local results of scrapeParallel
    slots,          \* values of the batch's promises: pending, null or a record
    parErr,         \* scrapeParallel is leaving by an exception
    fellBack,       \* the catch block of scrapeBusinesses has run
    outcome,        \* how the call ended: "running", "returned", "thrown"
    returned,       \* the list returned by scrapeBusinesses
    parOut,         \* history: outcome of every item of this scrapeParallel call
    seqOut,         \* history: outcome of every item of this scrapeSequential call
    batches,        \* history: number of batches this scrapeParallel call started
    outOfOrder,     \* history: a task settled before a task of a lower index
    zeroFeed,       \* history: a feed scroller stopped on an empty feed
    navFailed,      \* history: page.goto / waitForSelector of the search page threw
    closeThrew,     \* history: a cluster.close() call threw
    req,            \* body of the POST /api/scrape-gmaps request
    resp,           \* response of the endpoint
    instances,      \* scraper instances built for the call
    cycles,         \* history: loop iterations of this handleInfiniteScroll call
                    \* that went past the target test
    stagnant,       \* history: consecutive such iterations without growth of the feed
    lastCycle,      \* history: what the last iteration did
    handlers,       \* the calls of the endpoint handler that overlap
    scrapers,       \* the scraper instances of the server process
    page,           \* the detail page handed to extractBusinessData
    extracted       \* the record extractBusinessData returned

vars == <<options, maxResults, pc, phase, stats, results, browser, cluster,
          clusterRef, discBrowser, feed, scrollAttempts, consecutiveFailures,
          businessUrls, i, parResults, slots, parErr, fellBack,
          outcome, returned, parOut, seqOut, batches, outOfOrder, zeroFeed,
          navFailed, closeThrew, req, resp, instances,
          cycles, stagnant, lastCycle, handlers, scrapers, page, extracted>>

resVars == <<browser, cluster, clusterRef, discBrowser>>
cycleVars == <<cycles, stagnant, lastCycle>>
scrollVars == <<feed, scrollAttempts, consecutiveFailures, cycleVars>>
parVars == <<parResults, slots, parOut, batches>>
endVars == <<outcome, returned>>
histVars == <<outOfOrder, zeroFeed>>
faultVars == <<navFailed, closeThrew>>
apiVars == <<req, resp, instances>>
extVars == <<page, extracted>>
pairVars == <<handlers, scrapers>>

\* ---------------------------------------------------------------- helpers
Min(a, b) == IF a < b THEN a ELSE b

RECURSIVE SeqsUpTo(_, _)
SeqsUpTo(S, n) ==
    IF n = 0 THEN {<<>>}
    ELSE LET shorter == SeqsUpTo(S, n - 1)
         IN  shorter \cup {Append(s, x) : s \in {t \in shorter : Len(t) = n - 1}, x \in S}

Max(a, b) == IF a > b THEN a ELSE b

\* Array.prototype.slice(from, to) with from >= 0: a negative `to` counts
\* from the end
Slice(s, from, to) ==
    SubSeq(s, from + 1, IF to < 0 THEN Max(Len(s) + to, 0) ELSE Min(to, Len(s)))

NoRecord == [name |-> "", resultIndex |-> 0, googleMapsUrl |-> ""]
Pending == [st |-> "pending", rec |-> NoRecord]
Null == [st |-> "null", rec |-> NoRecord]
Value(r) == [st |-> "value", rec |-> r]

Count(s, v) == Cardinality({k \in 1..Len(s) : s[k] = v})

\* constructor: this.stats
InitStats == [processed |-> 0, successful |-> 0, failed |-> 0,
              scrollAttempts |-> 0, mode |-> "sequential"]

\* no iteration of the scroll loop has run
NoCycle == [kind |-> "none", scrolled |-> FALSE, newResults |-> 0,
            isAtBottom |-> FALSE, break |-> "none"]

\* no request: scrapeBusinesses is called directly
NoRequest == [hasQuery |-> FALSE, query |-> <<>>, maxResults |-> 0,
              mode |-> "", proMode |-> FALSE]

\* The history of the scroll loop is kept for the first handleInfiniteScroll
\* call of a direct call of scrapeBusinesses; the scroll of a fallback pass
\* and of a request to the endpoint (10 or 15 attempts) keep none.
Rec(old, new) == IF req = NoRequest /\ ~fellBack THEN new ELSE old
NoResponse == [status |-> 0, totalResults |-> 0, mode |-> "", stats |-> InitStats]

\* no detail page is open, no record has been extracted
NoPage == [open |-> FALSE]
NothingExtracted == [returned |-> FALSE]

\* extractBusinessData: name is the text of h1.DUwDvf.lfPIob or 'Not Found'
extractBusinessData(nameEl, resultIndex, href) ==
    [name |-> IF nameEl THEN "Biz" ELSE NotFound,
     resultIndex |-> resultIndex,
     googleMapsUrl |-> href]

Init ==
    /\ options \in [proMode : BOOLEAN, useParallel : BOOLEAN,
                    maxConcurrency : 1..MaxConcurrency,
                    maxScrollAttempts : {MaxScrollAttempts}]
    /\ options.proMode = options.useParallel
    /\ maxResults \in 1..MaxResults
    /\ pc = "start"
    /\ phase = "none"
    /\ stats = InitStats
    /\ results = <<>>
    /\ browser = "none"
    /\ cluster = "none"
    /\ clusterRef = FALSE
    /\ discBrowser = "none"
    /\ feed = 0
    /\ scrollAttempts = 0
    /\ consecutiveFailures = 0
    /\ businessUrls = <<>>
    /\ i = 0
    /\ parResults = <<>>
    /\ slots = <<>>
    /\ parErr = FALSE
    /\ fellBack = FALSE
    /\ outcome = "running"
    /\ returned = <<>>
    /\ parOut = <<>>
    /\ seqOut = <<>>
    /\ batches = 0
    /\ outOfOrder = FALSE
    /\ zeroFeed = FALSE
    /\ navFailed = FALSE
    /\ closeThrew = FALSE
    /\ cycles = 0
    /\ stagnant = 0
    /\ lastCycle = NoCycle
    /\ req = NoRequest
    /\ resp = NoResponse
    /\ instances = 1
    /\ page = NoPage
    /\ handlers = <<>>
    /\ scrapers = <<>>
    /\ extracted = NothingExtracted

\* scrapeBusinesses, lines 816-843: choice of the strategy
scrapeBusinesses_Start ==
    /\ pc = "start"
    /\ IF options.proMode /\ options.useParallel
       THEN pc' = "par_launch" /\ phase' = "par"
       ELSE pc' = "seq_launch" /\ phase' = "seq"
    /\ UNCHANGED <<options, maxResults, stats, results, resVars, scrollVars,
                   businessUrls, i, parVars, parErr, fellBack, endVars, seqOut>>
    /\ UNCHANGED histVars
    /\ UNCHANGED <<faultVars, apiVars, extVars, pairVars>>

\* ------------------------------------------------------------- sequential
\* line 575
KeepMode(st) == st
SequentialMode(st) == [st EXCEPT !.mode = "sequential"]

\* scrapeSequential, lines 573-604: the browser is launched, the search page
\* loaded and the first result container found
scrapeSequential_Launch ==
    /\ pc = "seq_launch"
    /\ stats' = SequentialMode(stats)
    /\ browser' = "open"
    /\ \E n \in 1..MaxFeed : feed' = n
    /\ pc' = "scroll"
    /\ UNCHANGED cycleVars
    /\ UNCHANGED <<options, maxResults, phase, results, cluster, clusterRef,
                   discBrowser, scrollAttempts, consecutiveFailures,
                   businessUrls, i, parVars, parErr, fellBack, endVars, seqOut>>
    /\ UNCHANGED histVars
    /\ UNCHANGED <<faultVars, apiVars, extVars, pairVars>>

\* scrapeSequential, lines 579-604 and 671-674: puppeteer.launch throws (no
\* browser), or page.goto / waitForSelector throws (browser open)
scrapeSequential_LaunchFail ==
    /\ pc = "seq_launch"
    /\ stats' = SequentialMode(stats)
    /\ \E launched \in BOOLEAN :
          /\ browser' = IF launched THEN "open" ELSE browser
          /\ navFailed' = (navFailed \/ launched)
    /\ pc' = "finish_err"
    /\ UNCHANGED <<options, maxResults, phase, results, cluster, clusterRef,
                   discBrowser, scrollVars, businessUrls, i, parVars, parErr,
                   fellBack, endVars, seqOut>>
    /\ UNCHANGED histVars
    /\ UNCHANGED <<closeThrew, apiVars, extVars, pairVars>>

\* --------------------------------------------------------- feed scroller
maxConsecutiveFailures ==
    IF options.proMode THEN ProMaxConsecutiveFailures ELSE StdMaxConsecutiveFailures

\* the while condition of line 448, evaluated after a cycle
AfterCycle(attempts, break) ==
    IF break \/ attempts >= options.maxScrollAttempts THEN "snapshot" ELSE "scroll"

\* what the feed can hold after a scroll: more, the same, or nothing (the
\* page re-rendered)
FeedAfterScroll == {0} \cup (feed..MaxFeed)

InCycle == pc = "scroll" /\ scrollAttempts < options.maxScrollAttempts

scrollFrame == <<options, maxResults, phase, results, resVars, businessUrls, i,
                 parVars, parErr, fellBack, endVars, seqOut>>

\* lines 450 and 499-503: the count cannot be read, the catch block runs
handleInfiniteScroll_ReadThrows ==
    /\ InCycle
    /\ scrollAttempts' = scrollAttempts + 1
    /\ consecutiveFailures' = consecutiveFailures + 1
    /\ pc' = AfterCycle(scrollAttempts', FALSE)
    /\ UNCHANGED <<feed, stats>>
    /\ cycles' = Rec(cycles, cycles + 1)
    /\ stagnant' = Rec(stagnant, stagnant + 1)
    /\ lastCycle' = Rec(lastCycle, [NoCycle EXCEPT !.kind = "threw"])
    /\ UNCHANGED scrollFrame
    /\ UNCHANGED histVars
    /\ UNCHANGED <<faultVars, apiVars, extVars, pairVars>>

\* lines 454-457: target reached, no scroll is issued
handleInfiniteScroll_TargetReached ==
    /\ InCycle
    /\ feed >= maxResults
    /\ pc' = AfterCycle(scrollAttempts, TRUE)
    /\ UNCHANGED <<feed, scrollAttempts, consecutiveFailures, stats>>
    /\ UNCHANGED <<cycles, stagnant>>
    /\ lastCycle' = Rec(lastCycle,
                        [NoCycle EXCEPT !.kind = "target", !.break = "target"])
    /\ UNCHANGED scrollFrame
    /\ UNCHANGED histVars
    /\ UNCHANGED <<faultVars, apiVars, extVars, pairVars>>

\* line 462: consecutiveFailures++
SameFailures(n) == n
NextFailures(n) == n + 1

\* lines 459-470: performDoubleScroll finds no feed container
handleInfiniteScroll_ScrollFailed ==
    /\ InCycle
    /\ feed < maxResults
    /\ consecutiveFailures' = NextFailures(consecutiveFailures)
    /\ pc' = AfterCycle(scrollAttempts, consecutiveFailures' >= maxConsecutiveFailures)
    /\ UNCHANGED <<feed, scrollAttempts, stats>>
    /\ cycles' = Rec(cycles, cycles + 1)
    /\ stagnant' = Rec(stagnant, stagnant + 1)
    /\ lastCycle' = Rec(lastCycle,
                        [NoCycle EXCEPT
                            !.kind = "failed",
                            !.break = IF consecutiveFailures' >= maxConsecutiveFailures
                                      THEN "failures" ELSE "none"])
    /\ UNCHANGED scrollFrame
    /\ UNCHANGED histVars
    /\ UNCHANGED <<faultVars, apiVars, extVars, pairVars>>

\* lines 472-497: the scroll is issued, the count re-read, the bottom tested
handleInfiniteScroll_Scrolled ==
    /\ InCycle
    /\ feed < maxResults
    /\ \E newResultCount \in FeedAfterScroll, isAtBottom \in BOOLEAN :
          /\ feed' = newResultCount
          /\ consecutiveFailures' = 0
          /\ scrollAttempts' = scrollAttempts + 1
          /\ stats' = [stats EXCEPT !.scrollAttempts = scrollAttempts']
          /\ pc' = AfterCycle(scrollAttempts', isAtBottom /\ newResultCount - feed = 0)
          /\ stagnant' = Rec(stagnant,
                              IF newResultCount > feed THEN 0 ELSE stagnant + 1)
          /\ lastCycle' = Rec(lastCycle,
                              [kind |-> "scrolled", scrolled |-> TRUE,
                               newResults |-> newResultCount - feed,
                               isAtBottom |-> isAtBottom,
                               break |-> IF isAtBottom /\ newResultCount - feed = 0
                                         THEN "bottom" ELSE "none"])
    /\ cycles' = Rec(cycles, cycles + 1)
    /\ UNCHANGED scrollFrame
    /\ UNCHANGED histVars
    /\ UNCHANGED <<faultVars, apiVars, extVars, pairVars>>

\* lines 472-477 and 499-503: the scroll is issued, then the count cannot be
\* re-read: consecutiveFailures was reset before the catch block raises it
handleInfiniteScroll_RecountThrows ==
    /\ InCycle
    /\ feed < maxResults
    /\ \E n \in FeedAfterScroll :
          /\ feed' = n
          /\ stagnant' = Rec(stagnant, IF n > feed THEN 0 ELSE stagnant + 1)
          /\ lastCycle' = Rec(lastCycle,
                              [NoCycle EXCEPT !.kind = "threw", !.scrolled = TRUE,
                                              !.newResults = n - feed])
    /\ cycles' = Rec(cycles, cycles + 1)
    /\ consecutiveFailures' = 0 + 1
    /\ scrollAttempts' = scrollAttempts + 1
    /\ pc' = AfterCycle(scrollAttempts', FALSE)
    /\ UNCHANGED stats
    /\ UNCHANGED scrollFrame
    /\ UNCHANGED histVars
    /\ UNCHANGED <<faultVars, apiVars, extVars, pairVars>>

\* lines 486-492 and 499-503: the bottom test throws after scrollAttempts
\* was raised and stored; the catch block raises it again
handleInfiniteScroll_BottomThrows ==
    /\ InCycle
    /\ feed < maxResults
    /\ \E n \in FeedAfterScroll :
          /\ feed' = n
          /\ stagnant' = Rec(stagnant, IF n > feed THEN 0 ELSE stagnant + 1)
          /\ lastCycle' = Rec(lastCycle,
                              [NoCycle EXCEPT !.kind = "threw", !.scrolled = TRUE,
                                              !.newResults = n - feed])
    /\ cycles' = Rec(cycles, cycles + 1)
    /\ consecutiveFailures' = 0 + 1
    /\ stats' = [stats EXCEPT !.scrollAttempts = scrollAttempts + 1]
    /\ scrollAttempts' = (scrollAttempts + 1) + 1
    /\ pc' = AfterCycle(scrollAttempts', FALSE)
    /\ UNCHANGED scrollFrame
    /\ UNCHANGED histVars
    /\ UNCHANGED <<faultVars, apiVars, extVars, pairVars>>

handleInfiniteScroll ==
    \/ handleInfiniteScroll_ReadThrows
    \/ handleInfiniteScroll_TargetReached
    \/ handleInfiniteScroll_ScrollFailed
    \/ handleInfiniteScroll_Scrolled
    \/ handleInfiniteScroll_RecountThrows
    \/ handleInfiniteScroll_BottomThrows

\* lines 506-513: the value handleInfiniteScroll returns
scrollResult ==
    [totalResults |-> feed, scrollAttempts |-> scrollAttempts, success |-> feed > 0]

\* the a[href*="/place/"] elements of the page, in DOM order
Links == SeqsUpTo(URLS, MaxLinks)

\* scrapeSequential, lines 609-613: no result container is left
scrapeSequential_NoResults ==
    /\ pc = "snapshot" /\ phase = "seq"
    /\ ~scrollResult.success
    /\ feed = 0
    /\ pc' = "finish_err"
    /\ feed' = 0 /\ scrollAttempts' = 0 /\ consecutiveFailures' = 0
    /\ cycles' = 0 /\ stagnant' = 0 /\ lastCycle' = NoCycle
    /\ UNCHANGED <<options, maxResults, phase, stats, results, resVars,
                   businessUrls, i, parVars, parErr, fellBack, endVars, seqOut>>
    /\ zeroFeed' = (zeroFeed \/ feed = 0)
    /\ UNCHANGED outOfOrder
    /\ UNCHANGED <<faultVars, apiVars, extVars, pairVars>>

\* scrapeSequential, lines 506, 610, 618: a page read after the loop throws
scrapeSequential_PageError ==
    /\ pc = "snapshot" /\ phase = "seq"
    /\ pc' = "finish_err"
    /\ feed' = 0 /\ scrollAttempts' = 0 /\ consecutiveFailures' = 0
    /\ cycles' = 0 /\ stagnant' = 0 /\ lastCycle' = NoCycle
    /\ UNCHANGED <<options, maxResults, phase, stats, results, resVars,
                   businessUrls, i, parVars, parErr, fellBack, endVars, seqOut>>
    /\ zeroFeed' = (zeroFeed \/ feed = 0)
    /\ UNCHANGED outOfOrder
    /\ UNCHANGED <<faultVars, apiVars, extVars, pairVars>>

\* line 627
resultsToProcess(urls) == Min(maxResults, Len(urls))

\* scrapeSequential, lines 617-630: the snapshot is taken; a loop over no
\* item falls through to `return this.results`
scrapeSequential_Snapshot ==
    /\ pc = "snapshot" /\ phase = "seq"
    /\ scrollResult.success \/ feed # 0
    /\ \E links \in Links :
          /\ businessUrls' = links
          /\ pc' = IF 0 < resultsToProcess(links) THEN "seq_item" ELSE "finish_ok"
    /\ i' = 0
    /\ seqOut' = <<>>
    /\ feed' = 0 /\ scrollAttempts' = 0 /\ consecutiveFailures' = 0
    /\ cycles' = 0 /\ stagnant' = 0 /\ lastCycle' = NoCycle
    /\ UNCHANGED <<options, maxResults, phase, stats, results, resVars,
                   parVars, parErr, fellBack, endVars>>
    /\ UNCHANGED histVars
    /\ UNCHANGED <<faultVars, apiVars, extVars, pairVars>>

\* line 646 (sequential) and line 738 (concurrent): the record is kept
NoKeep(businessDetails) == TRUE
Keep(businessDetails) == businessDetails.name # NotFound

\* lines 647-648
SeqNoCount(st) == st
SeqSuccess(st) == [st EXCEPT !.successful = st.successful + 1]

\* line 643: extractBusinessData(this.page, query, i + 1)
SeqZeroBased(idx) == idx
SeqResultIndex(idx) == idx + 1

\* lines 660-664: the catch block ends the iteration with `continue`
SeqBreakOnError(idx, n) == n
SeqAfterError(idx, n) == idx + 1

\* scrapeSequential, lines 630-667: one iteration of the loop
scrapeSequential_Item ==
    /\ pc = "seq_item"
    /\ i < resultsToProcess(businessUrls)
    /\ \E o \in Outcomes :
          /\ seqOut' = Append(seqOut, o)
          /\ IF o = "error"
             THEN \* goto, waitForSelector or evaluate throws
                  /\ stats' = [stats EXCEPT !.failed = stats.failed + 1]
                  /\ results' = results
                  /\ i' = SeqAfterError(i, resultsToProcess(businessUrls))
             ELSE LET businessDetails ==
                          extractBusinessData(o = "ok", SeqResultIndex(i), businessUrls[i + 1])
                  IN  /\ IF Keep(businessDetails)
                         THEN /\ results' = Append(results, businessDetails)
                              /\ stats' = [SeqSuccess(stats) EXCEPT
                                              !.processed = stats.processed + 1]
                         ELSE /\ results' = results
                              /\ stats' = [stats EXCEPT
                                              !.failed = stats.failed + 1,
                                              !.processed = stats.processed + 1]
                      /\ i' = i + 1
    /\ pc' = IF i' < resultsToProcess(businessUrls) THEN "seq_item" ELSE "finish_ok"
    /\ UNCHANGED <<options, maxResults, phase, resVars, scrollVars, businessUrls,
                   parVars, parErr, fellBack, endVars>>
    /\ UNCHANGED histVars
    /\ UNCHANGED <<faultVars, apiVars, extVars, pairVars>>

\* ------------------------------------------------------------- concurrent
\* scrapeParallel, lines 680-698: the cluster is launched
scrapeParallel_Launch ==
    /\ pc = "par_launch"
    /\ stats' = [stats EXCEPT !.mode = "parallel-pro"]
    /\ cluster' = "open"
    /\ clusterRef' = TRUE
    /\ pc' = "disc_launch"
    /\ UNCHANGED <<options, maxResults, phase, results, browser, discBrowser,
                   scrollVars, businessUrls, i, parVars, parErr, fellBack,
                   endVars, seqOut>>
    /\ UNCHANGED histVars
    /\ UNCHANGED <<faultVars, apiVars, extVars, pairVars>>

\* scrapeParallel, lines 686-696 and 761-763: Cluster.launch throws
scrapeParallel_LaunchFail ==
    /\ pc = "par_launch"
    /\ stats' = [stats EXCEPT !.mode = "parallel-pro"]
    /\ parErr' = TRUE
    /\ pc' = "par_finally"
    /\ UNCHANGED <<options, maxResults, phase, results, resVars, scrollVars,
                   businessUrls, i, parVars, fellBack, endVars, seqOut>>
    /\ UNCHANGED histVars
    /\ UNCHANGED <<faultVars, apiVars, extVars, pairVars>>

\* getBusinessUrlsSequential, lines 808-810: the finally block closes the
\* discovery browser
DiscoveryNoFinally == "open"
DiscoveryFinally == "closed"

\* getBusinessUrlsSequential, lines 775-793: the discovery browser is
\* launched, the search page loaded and the first result container found
getBusinessUrlsSequential_Launch ==
    /\ pc = "disc_launch"
    /\ discBrowser' = "open"
    /\ \E n \in 1..MaxFeed : feed' = n
    /\ pc' = "scroll"
    /\ UNCHANGED cycleVars
    /\ UNCHANGED <<options, maxResults, phase, stats, results, browser, cluster,
                   clusterRef, scrollAttempts, consecutiveFailures,
                   businessUrls, i, parVars, parErr, fellBack, endVars, seqOut>>
    /\ UNCHANGED histVars
    /\ UNCHANGED <<faultVars, apiVars, extVars, pairVars>>

\* getBusinessUrlsSequential, lines 776-793 and 808-810: puppeteer.launch
\* throws (no browser), or goto / waitForSelector throws and the finally
\* block closes the browser
getBusinessUrlsSequential_LaunchFail ==
    /\ pc = "disc_launch"
    /\ \E launched \in BOOLEAN :
          /\ discBrowser' = IF launched THEN DiscoveryFinally ELSE discBrowser
          /\ navFailed' = (navFailed \/ launched)
    /\ parErr' = TRUE
    /\ pc' = "par_finally"
    /\ UNCHANGED <<options, maxResults, phase, stats, results, browser, cluster,
                   clusterRef, scrollVars, businessUrls, i, parVars, fellBack,
                   endVars, seqOut>>
    /\ UNCHANGED histVars
    /\ UNCHANGED <<closeThrew, apiVars, extVars, pairVars>>

\* getBusinessUrlsSequential, lines 798-800 and 808-810
getBusinessUrlsSequential_NoResults ==
    /\ pc = "snapshot" /\ phase = "par"
    /\ ~scrollResult.success /\ scrollResult.totalResults = 0
    /\ discBrowser' = DiscoveryFinally
    /\ parErr' = TRUE
    /\ pc' = "par_finally"
    /\ feed' = 0 /\ scrollAttempts' = 0 /\ consecutiveFailures' = 0
    /\ cycles' = 0 /\ stagnant' = 0 /\ lastCycle' = NoCycle
    /\ UNCHANGED <<options, maxResults, phase, stats, results, browser, cluster,
                   clusterRef, businessUrls, i, parVars, fellBack, endVars, seqOut>>
    /\ zeroFeed' = (zeroFeed \/ feed = 0)
    /\ UNCHANGED outOfOrder
    /\ UNCHANGED <<faultVars, apiVars, extVars, pairVars>>

\* getBusinessUrlsSequential, lines 506, 802 and 808-810: a page read after
\* the loop throws
getBusinessUrlsSequential_PageError ==
    /\ pc = "snapshot" /\ phase = "par"
    /\ discBrowser' = DiscoveryFinally
    /\ parErr' = TRUE
    /\ pc' = "par_finally"
    /\ feed' = 0 /\ scrollAttempts' = 0 /\ consecutiveFailures' = 0
    /\ cycles' = 0 /\ stagnant' = 0 /\ lastCycle' = NoCycle
    /\ UNCHANGED <<options, maxResults, phase, stats, results, browser, cluster,
                   clusterRef, businessUrls, i, parVars, fellBack, endVars, seqOut>>
    /\ zeroFeed' = (zeroFeed \/ feed = 0)
    /\ UNCHANGED outOfOrder
    /\ UNCHANGED <<faultVars, apiVars, extVars, pairVars>>

\* line 725
batchSize == options.maxConcurrency

\* line 729: businessUrls.slice(i, i + batchSize)
WideBatch(urls, idx) == Slice(urls, idx, idx + batchSize + 1)
Batch(urls, idx) == Slice(urls, idx, idx + batchSize)

\* line 734
BatchRelativeIndex(idx, batchIndex) == batchIndex + 1
ParResultIndex(idx, batchIndex) == idx + batchIndex + 1

\* lines 744-748: the catch block of a worker turns the error into null
Rejected == [st |-> "rejected", rec |-> NoRecord]
WorkerRethrow == Rejected
WorkerCatch == Null

\* lines 730-749: map() starts one task per item of the batch
InFlight(out, idx, len) ==
    [k \in 1..Len(out) |-> IF idx < k /\ k <= idx + len THEN "inflight" ELSE out[k]]

\* getBusinessUrlsSequential, lines 802-810, and scrapeParallel, lines
\* 701-730: the snapshot is cut to maxResults, the discovery browser closed;
\* an empty snapshot throws, otherwise the first batch is started.  Every
\* href matched by a[href*="/place/"] passes the filter of line 803.
getBusinessUrlsSequential_Snapshot ==
    /\ pc = "snapshot" /\ phase = "par"
    /\ ~(~scrollResult.success /\ scrollResult.totalResults = 0)
    /\ discBrowser' = DiscoveryFinally
    /\ feed' = 0 /\ scrollAttempts' = 0 /\ consecutiveFailures' = 0
    /\ cycles' = 0 /\ stagnant' = 0 /\ lastCycle' = NoCycle
    /\ i' = 0
    /\ parResults' = <<>>
    /\ \E links \in Links :
          LET urls == Slice(links, 0, maxResults)
          IN  /\ businessUrls' = urls
              /\ IF Len(urls) = 0
                 THEN /\ parErr' = TRUE
                      /\ pc' = "par_finally"
                      /\ UNCHANGED <<slots, parOut, batches>>
                 ELSE /\ parErr' = FALSE
                      /\ pc' = "par_await"
                      /\ slots' = [k \in 1..Len(Batch(urls, 0)) |-> Pending]
                      /\ parOut' = InFlight([k \in 1..Len(urls) |-> "none"], 0,
                                            Len(Batch(urls, 0)))
                      /\ batches' = 1
    /\ UNCHANGED <<options, maxResults, phase, stats, results, browser, cluster,
                   clusterRef, fellBack, endVars, seqOut>>
    /\ UNCHANGED histVars
    /\ UNCHANGED <<faultVars, apiVars, extVars, pairVars>>

\* scrapeParallel, lines 730-749: the task of one item of the batch settles
scrapeParallel_Worker ==
    /\ pc = "par_await"
    /\ \E k \in 1..Len(slots), o \in Outcomes :
          /\ slots[k] = Pending
          /\ parOut' = [parOut EXCEPT ![i + k] = o]
          /\ outOfOrder' = (outOfOrder \/ \E j \in 1..(k - 1) : slots[j] = Pending)
          /\ IF o = "error"
             THEN \* cluster.execute rejects
                  /\ slots' = [slots EXCEPT ![k] = WorkerCatch]
                  /\ stats' = IF WorkerCatch = Null
                              THEN [stats EXCEPT !.failed = stats.failed + 1]
                              ELSE stats
             ELSE LET result == extractBusinessData(
                                    o = "ok", ParResultIndex(i, k - 1),
                                    businessUrls[i + k])
                  IN  IF Keep(result)
                      THEN /\ slots' = [slots EXCEPT ![k] = Value(result)]
                           /\ stats' = [stats EXCEPT !.successful = stats.successful + 1]
                      ELSE /\ slots' = [slots EXCEPT ![k] = Null]
                           /\ stats' = stats
    /\ UNCHANGED <<options, maxResults, pc, phase, results, resVars, scrollVars,
                   businessUrls, i, parResults, batches, parErr, fellBack,
                   endVars, seqOut>>
    /\ UNCHANGED zeroFeed
    /\ UNCHANGED <<faultVars, apiVars, extVars, pairVars>>

\* line 752: batchResults.filter(result => result !== null), in slot order
NonNull(batchResults) ==
    LET kept == SelectSeq(batchResults, LAMBDA s : s.st = "value")
    IN  [k \in 1..Len(kept) |-> kept[k].rec]

\* scrapeParallel, lines 751-759: Promise.all settles; the batch is
\* appended, the next batch started or the list stored and returned.
\* Promise.all rejects as soon as one of its promises rejects.
scrapeParallel_Join ==
    /\ pc = "par_await"
    /\ IF \E k \in 1..Len(slots) : slots[k] = Rejected
       THEN /\ parErr' = TRUE
            /\ pc' = "par_finally"
            /\ UNCHANGED <<stats, results, i, parVars>>
       ELSE /\ \A k \in 1..Len(slots) : slots[k] # Pending
            /\ parResults' = parResults \o NonNull(slots)
            /\ stats' = [stats EXCEPT !.processed = stats.processed + Len(slots)]
            /\ i' = i + batchSize
            /\ IF i' < Len(businessUrls)
               THEN /\ pc' = "par_await"
                    /\ slots' = [k \in 1..Len(Batch(businessUrls, i')) |-> Pending]
                    /\ parOut' = InFlight(parOut, i', Len(Batch(businessUrls, i')))
                    /\ batches' = batches + 1
                    /\ results' = results
               ELSE /\ pc' = "par_finally"
                    /\ results' = parResults'
                    /\ UNCHANGED <<slots, parOut, batches>>
            /\ parErr' = FALSE
    /\ UNCHANGED <<options, maxResults, phase, resVars, scrollVars, businessUrls,
                   fellBack, endVars, seqOut>>
    /\ UNCHANGED histVars
    /\ UNCHANGED <<faultVars, apiVars, extVars, pairVars>>

\* scrapeParallel, lines 761-769, and scrapeBusinesses, lines 829-839: the
\* finally block closes the cluster (cluster.close() may throw); an exception
\* leaving scrapeParallel is caught and the run falls back
scrapeParallel_Finally ==
    /\ pc = "par_finally"
    /\ \E closeThrows \in BOOLEAN :
          /\ closeThrows => clusterRef
          /\ IF clusterRef /\ ~closeThrows
             THEN cluster' = "closed" /\ clusterRef' = FALSE
             ELSE UNCHANGED <<cluster, clusterRef>>
          /\ closeThrew' = (closeThrew \/ closeThrows)
          /\ IF parErr \/ closeThrows
             THEN /\ options' = [options EXCEPT !.proMode = FALSE,
                                                !.useParallel = FALSE]
                  /\ fellBack' = TRUE
                  /\ phase' = "seq"
                  /\ pc' = "seq_launch"
                  /\ businessUrls' = <<>>
                  /\ parOut' = <<>>
                  /\ batches' = 0
                  /\ outOfOrder' = FALSE
             ELSE /\ pc' = "finish_ok"
                  /\ UNCHANGED <<options, fellBack, phase, businessUrls,
                                 parOut, batches, outOfOrder>>
    /\ slots' = <<>>
    /\ parResults' = <<>>
    /\ i' = 0
    /\ UNCHANGED <<maxResults, stats, results, browser, discBrowser, scrollVars,
                   parErr, endVars, seqOut>>
    /\ UNCHANGED zeroFeed
    /\ UNCHANGED <<navFailed, apiVars, extVars, pairVars>>

\* scrapeBusinesses, lines 845-867: return or rethrow, through the finally
\* block; cluster.close() may throw there
scrapeBusinesses_Finally ==
    /\ pc \in {"finish_ok", "finish_err"}
    /\ browser' = IF browser = "open" THEN "closed" ELSE browser
    /\ \E closeThrows \in BOOLEAN :
          /\ closeThrows => clusterRef
          /\ IF clusterRef /\ ~closeThrows
             THEN cluster' = "closed" /\ clusterRef' = FALSE
             ELSE UNCHANGED <<cluster, clusterRef>>
          /\ closeThrew' = (closeThrew \/ closeThrows)
          /\ IF pc = "finish_ok" /\ ~closeThrows
             THEN outcome' = "returned" /\ returned' = results
             ELSE outcome' = "thrown" /\ returned' = <<>>
    /\ pc' = "done"
    /\ UNCHANGED <<options, maxResults, phase, stats, results, discBrowser,
                   scrollVars, businessUrls, i, parVars, parErr, fellBack, seqOut>>
    /\ UNCHANGED histVars
    /\ UNCHANGED <<navFailed, apiVars, extVars, pairVars>>

Next ==
    \/ scrapeBusinesses_Start
    \/ scrapeSequential_Launch
    \/ scrapeSequential_LaunchFail
    \/ handleInfiniteScroll
    \/ scrapeSequential_NoResults
    \/ scrapeSequential_PageError
    \/ scrapeSequential_Snapshot
    \/ scrapeSequential_Item
    \/ scrapeParallel_Launch
    \/ scrapeParallel_LaunchFail
    \/ getBusinessUrlsSequential_Launch
    \/ getBusinessUrlsSequential_LaunchFail
    \/ getBusinessUrlsSequential_NoResults
    \/ getBusinessUrlsSequential_PageError
    \/ getBusinessUrlsSequential_Snapshot
    \/ scrapeParallel_Worker
    \/ scrapeParallel_Join
    \/ scrapeParallel_Finally
    \/ scrapeBusinesses_Finally

Spec == Init /\ [][Next]_vars

\* ------------------------------------------------------------ the scroller
\* One call of handleInfiniteScroll, from its entry in a run that has just
\* found the first result container: by scrapeSequential (line 606) or by
\* getBusinessUrlsSequential (line 796).  A page operation returns or
\* throws, so an iteration that has started ends.
InitScroll ==
    /\ options \in [proMode : BOOLEAN, useParallel : BOOLEAN,
                    maxConcurrency : 1..MaxConcurrency,
                    maxScrollAttempts : {MaxScrollAttempts}]
    /\ options.proMode = options.useParallel
    /\ maxResults \in 1..MaxResults
    /\ pc = "scroll"
    /\ feed \in 1..MaxFeed
    /\ IF options.proMode
       THEN /\ phase = "par"
            /\ stats = [InitStats EXCEPT !.mode = "parallel-pro"]
            /\ browser = "none"
            /\ cluster = "open" /\ clusterRef = TRUE
            /\ discBrowser = "open"
       ELSE /\ phase = "seq"
            /\ stats = SequentialMode(InitStats)
            /\ browser = "open"
            /\ cluster = "none" /\ clusterRef = FALSE
            /\ discBrowser = "none"
    /\ results = <<>>
    /\ scrollAttempts = 0
    /\ consecutiveFailures = 0
    /\ businessUrls = <<>>
    /\ i = 0
    /\ parResults = <<>>
    /\ slots = <<>>
    /\ parErr = FALSE
    /\ fellBack = FALSE
    /\ outcome = "running"
    /\ returned = <<>>
    /\ parOut = <<>>
    /\ seqOut = <<>>
    /\ batches = 0
    /\ outOfOrder = FALSE
    /\ zeroFeed = FALSE
    /\ navFailed = FALSE
    /\ closeThrew = FALSE
    /\ cycles = 0
    /\ stagnant = 0
    /\ lastCycle = NoCycle
    /\ req = NoRequest
    /\ resp = NoResponse
    /\ instances = 1
    /\ page = NoPage
    /\ handlers = <<>>
    /\ scrapers = <<>>
    /\ extracted = NothingExtracted

NextScroll == handleInfiniteScroll

SpecScroll == InitScroll /\ [][NextScroll]_vars /\ WF_vars(NextScroll)

\* ------------------------------------------------------------ the endpoint
\* A JSON number is held as twice its value, so that a half can be sent.
Num(n) == 2 * n

\* the bodies sent: query absent, empty, blank or padded; maxResults -1,
\* 0, 0.5, 1, 500.5 and 501, with either mode and either proMode; and two
\* bodies with larger targets, the standard one at the limit of 500
Queries == {<<>>, <<" ">>, <<" ", " ">>, <<" ", "c">>}
ResultInputs == {Num(-1), Num(0), 1, Num(1),
                 Num(MaxAllowedResults) + 1, Num(MaxAllowedResults + 1)}
Requests ==
    {r \in [hasQuery : BOOLEAN, query : Queries, maxResults : ResultInputs,
            mode : {"sequential", "parallel"}, proMode : BOOLEAN] :
        ~r.hasQuery => r.query = <<>>}
    \cup {[hasQuery |-> TRUE, query |-> <<" ", "c">>,
           maxResults |-> Num(MaxAllowedResults),
           mode |-> "sequential", proMode |-> FALSE],
          [hasQuery |-> TRUE, query |-> <<" ", "c">>, maxResults |-> Num(2),
           mode |-> "parallel", proMode |-> TRUE]}

\* String.prototype.trim
RECURSIVE trim(_)
trim(str) ==
    IF str = <<>> THEN str
    ELSE IF Head(str) = " " THEN trim(Tail(str))
    ELSE IF str[Len(str)] = " " THEN trim(SubSeq(str, 1, Len(str) - 1))
    ELSE str

\* parseInt of a number: the digits before the decimal point
parseInt(x) == IF x >= 0 THEN x \div 2 ELSE -((-x) \div 2)

\* line 61: !query || typeof query !== 'string' || query.trim().length === 0
QueryMissing(r) == ~r.hasQuery \/ r.query = <<>> \/ Len(trim(r.query)) = 0

\* line 68: maxResults > 500
NoLimit(x) == FALSE
ExceedsLimit(x) == x > Num(MaxAllowedResults)

\* lines 79-92: the options of the instance the handler builds
ScraperOptions(proMode) ==
    [proMode |-> proMode, useParallel |-> proMode,
     maxConcurrency |-> IF proMode THEN ProConcurrency ELSE StdConcurrency,
     maxScrollAttempts |-> IF proMode THEN ProScrollAttempts ELSE StdScrollAttempts]

NoOptions == [proMode |-> FALSE, useParallel |-> FALSE,
              maxConcurrency |-> 0, maxScrollAttempts |-> 0]

InitApi ==
    /\ req \in Requests
    /\ resp = NoResponse
    /\ instances = 0
    /\ page = NoPage
    /\ handlers = <<>>
    /\ scrapers = <<>>
    /\ extracted = NothingExtracted
    /\ options = NoOptions
    /\ maxResults = 0
    /\ pc = "request"
    /\ phase = "none"
    /\ stats = InitStats
    /\ results = <<>>
    /\ browser = "none"
    /\ cluster = "none"
    /\ clusterRef = FALSE
    /\ discBrowser = "none"
    /\ feed = 0
    /\ scrollAttempts = 0
    /\ consecutiveFailures = 0
    /\ businessUrls = <<>>
    /\ i = 0
    /\ parResults = <<>>
    /\ slots = <<>>
    /\ parErr = FALSE
    /\ fellBack = FALSE
    /\ outcome = "running"
    /\ returned = <<>>
    /\ parOut = <<>>
    /\ seqOut = <<>>
    /\ batches = 0
    /\ outOfOrder = FALSE
    /\ zeroFeed = FALSE
    /\ navFailed = FALSE
    /\ closeThrew = FALSE
    /\ cycles = 0
    /\ stagnant = 0
    /\ lastCycle = NoCycle

scraperVars == <<phase, stats, results, resVars, scrollVars, businessUrls, i,
                 parVars, parErr, fellBack, endVars, seqOut, histVars, faultVars>>

\* lines 56-73: the body fails the validation and is answered with 400
api_Reject ==
    /\ pc = "request"
    /\ QueryMissing(req) \/ ExceedsLimit(req.maxResults)
    /\ resp' = [NoResponse EXCEPT !.status = 400]
    /\ pc' = "responded"
    /\ UNCHANGED <<req, instances, options, maxResults>>
    /\ UNCHANGED scraperVars
    /\ UNCHANGED <<extVars, pairVars>>

\* lines 73-96: the body passes; the handler builds its scraper and calls
\* scrapeBusinesses(query, parseInt(maxResults))
api_Accept ==
    /\ pc = "request"
    /\ ~QueryMissing(req)
    /\ ~ExceedsLimit(req.maxResults)
    /\ options' = ScraperOptions(req.proMode)
    /\ instances' = instances + 1
    /\ maxResults' = parseInt(req.maxResults)
    /\ pc' = "start"
    /\ UNCHANGED <<req, resp>>
    /\ UNCHANGED scraperVars
    /\ UNCHANGED <<extVars, pairVars>>

\* line 116: the mode written over scraper.stats.mode in the response
ResponseMode(proMode) == IF proMode THEN "parallel-pro" ELSE "sequential-standard"

\* lines 98-128: the call returned (200) or threw (500)
api_Respond ==
    /\ pc = "done"
    /\ IF outcome = "returned"
       THEN resp' = [status |-> 200,
                     totalResults |-> Len(returned),
                     mode |-> IF req.proMode THEN "pro" ELSE "standard",
                     stats |-> [stats EXCEPT !.mode = ResponseMode(req.proMode)]]
       ELSE resp' = [NoResponse EXCEPT !.status = 500]
    /\ pc' = "responded"
    /\ UNCHANGED <<req, instances, options, maxResults>>
    /\ UNCHANGED scraperVars
    /\ UNCHANGED <<extVars, pairVars>>

NextApi ==
    \/ api_Reject
    \/ api_Accept
    \/ api_Respond
    \/ Next

SpecApi == InitApi /\ [][NextApi]_vars

\* ------------------------------------------------------- the field extractor
\* A text is a sequence of characters; 'Phone:' and 'Not Found' are held as
\* one character each.  A coordinate of the page address is its sign, its
\* integer digits and its decimal digit (-1: the number has no decimal
\* point); a parsed coordinate is counted in tenths.
NotFoundText == <<NotFound>>
NoElement == [present |-> FALSE, textContent |-> <<>>, href |-> <<>>, ariaLabel |-> <<>>]
TextElement(t) == [NoElement EXCEPT !.present = TRUE, !.textContent = t]
LinkElement(h) == [NoElement EXCEPT !.present = TRUE, !.href = h]
PhoneElement(a) == [NoElement EXCEPT !.present = TRUE, !.ariaLabel = a]

\* lines 38-51: the selectors read with textContent
TextFields == {"name", "category", "address", "rating", "reviewCount", "hours", "priceLevel"}

TextElements == {NoElement, TextElement(<<" ", "v">>)}
LinkElements == {NoElement, LinkElement(<<"w">>)}
\* line 45: button[aria-label^="Phone:"], so a matched element has the label
PhoneElements == {NoElement, PhoneElement(<<"Phone:", " ", "5", " ">>),
                  PhoneElement(<<"Phone:", "5">>)}
NoCoordinate == [neg |-> FALSE, int |-> 0, dec |-> -1]
CoordinateTexts == {[neg |-> FALSE, int |-> 4, dec |-> 5],
                    [neg |-> TRUE, int |-> 4, dec |-> 0],
                    [neg |-> FALSE, int |-> 4, dec |-> -1]}
Locations == [at : {TRUE}, lat : CoordinateTexts, lng : CoordinateTexts]
                 \cup {[at |-> FALSE, lat |-> NoCoordinate, lng |-> NoCoordinate]}
Pages == [open : {TRUE}, els : [TextFields -> TextElements],
          websiteLink : LinkElements, phoneNumber : PhoneElements,
          href : Locations, query : {<<"c">>}, resultIndex : 1..MaxLinks]

\* lines 521-524: getText
getTextRaw(el) == trim(el.textContent)
getText(el) == IF el.present THEN trim(el.textContent) ELSE NotFoundText

\* lines 526-529: getHref
getHref(el) == IF el.present THEN el.href ELSE NotFoundText

\* String.prototype.replace('Phone: ', ''): the first occurrence is removed
RECURSIVE replacePhone(_)
replacePhone(str) ==
    IF Len(str) < 2 THEN str
    ELSE IF str[1] = "Phone:" /\ str[2] = " " THEN SubSeq(str, 3, Len(str))
    ELSE <<Head(str)>> \o replacePhone(Tail(str))

\* lines 531-538: getPhoneFromAria
getPhoneFromAria(el) ==
    IF el.present
    THEN IF el.ariaLabel # <<>> THEN trim(replacePhone(el.ariaLabel)) ELSE NotFoundText
    ELSE NotFoundText

\* line 541: /@(-?\d+\.\d+),(-?\d+\.\d+)/ needs a decimal point in both numbers
urlMatch(href) == href.at /\ href.lat.dec >= 0 /\ href.lng.dec >= 0

\* parseFloat of a matched group, in tenths
parseFloat(c) == (IF c.neg THEN -1 ELSE 1) * (10 * c.int + c.dec)

\* lines 540-549: getCoordinates; null is the empty sequence
NullCoordinates == <<>>
getCoordinates(href) ==
    IF urlMatch(href) THEN <<parseFloat(href.lat), parseFloat(href.lng)>> ELSE NullCoordinates

\* lines 551-566: the record built in the page
pageEvaluate(p) ==
    [returned |-> TRUE,
     name |-> getText(p.els["name"]),
     category |-> getText(p.els["category"]),
     website |-> getHref(p.websiteLink),
     phone |-> getPhoneFromAria(p.phoneNumber),
     address |-> getText(p.els["address"]),
     rating |-> getText(p.els["rating"]),
     reviewCount |-> getText(p.els["reviewCount"]),
     hours |-> getText(p.els["hours"]),
     priceLevel |-> getText(p.els["priceLevel"]),
     coordinates |-> getCoordinates(p.href),
     searchQuery |-> p.query,
     resultIndex |-> p.resultIndex,
     googleMapsUrl |-> p.href]

\* One call of extractBusinessData on a loaded detail page of a sequential
\* run (line 636).
InitExtract ==
    /\ options \in [proMode : {FALSE}, useParallel : {FALSE},
                    maxConcurrency : {1},
                    maxScrollAttempts : {MaxScrollAttempts}]
    /\ maxResults = MaxResults
    /\ pc = "extract"
    /\ phase = "seq"
    /\ stats = SequentialMode(InitStats)
    /\ results = <<>>
    /\ browser = "open"
    /\ cluster = "none" /\ clusterRef = FALSE
    /\ discBrowser = "none"
    /\ feed = 0
    /\ scrollAttempts = 0
    /\ consecutiveFailures = 0
    /\ businessUrls = <<>>
    /\ i = 0
    /\ parResults = <<>>
    /\ slots = <<>>
    /\ parErr = FALSE
    /\ fellBack = FALSE
    /\ outcome = "running"
    /\ returned = <<>>
    /\ parOut = <<>>
    /\ seqOut = <<>>
    /\ batches = 0
    /\ outOfOrder = FALSE
    /\ zeroFeed = FALSE
    /\ navFailed = FALSE
    /\ closeThrew = FALSE
    /\ cycles = 0
    /\ stagnant = 0
    /\ lastCycle = NoCycle
    /\ req = NoRequest
    /\ resp = NoResponse
    /\ instances = 1
    /\ page \in Pages
    /\ handlers = <<>>
    /\ scrapers = <<>>
    /\ extracted = NothingExtracted

\* lines 519-568: extractBusinessData(page, query, resultIndex)
extractBusinessData_Call ==
    /\ pc = "extract"
    /\ extracted' = pageEvaluate(page)
    /\ pc' = "extracted"
    /\ UNCHANGED <<options, maxResults, scraperVars, apiVars, page, pairVars>>

NextExtract == extractBusinessData_Call

SpecExtract == InitExtract /\ [][NextExtract]_vars

\* ------------------------------------------------- overlapping requests
\* Two calls of the handler of POST /api/scrape-gmaps in one server process.
\* A call holds its query and target, the scraper it runs on, the items it
\* has still to visit and, as history, the outcomes of the items it visited.
\* scrapers[1] is the instance the module builds when it is loaded (line 5).
\* the two calls
Handlers == {1, 2}
PairQueries == {"a", "b"}

\* part_003, lines 52-67: the state of a new instance
NewScraper == [results |-> <<>>,
               stats |-> [processed |-> 0, successful |-> 0, failed |-> 0]]

InitPair ==
    /\ handlers \in [Handlers ->
                        [pc : {"request"}, query : PairQueries,
                         left : 1..MaxResults, scraper : {0}, out : {<<>>},
                         response : {NewScraper}]]
    /\ scrapers = <<NewScraper>>
    /\ options = NoOptions
    /\ maxResults = 0
    /\ pc = "serving"
    /\ phase = "none"
    /\ stats = InitStats
    /\ results = <<>>
    /\ browser = "none"
    /\ cluster = "none" /\ clusterRef = FALSE
    /\ discBrowser = "none"
    /\ feed = 0
    /\ scrollAttempts = 0
    /\ consecutiveFailures = 0
    /\ businessUrls = <<>>
    /\ i = 0
    /\ parResults = <<>>
    /\ slots = <<>>
    /\ parErr = FALSE
    /\ fellBack = FALSE
    /\ outcome = "running"
    /\ returned = <<>>
    /\ parOut = <<>>
    /\ seqOut = <<>>
    /\ batches = 0
    /\ outOfOrder = FALSE
    /\ zeroFeed = FALSE
    /\ navFailed = FALSE
    /\ closeThrew = FALSE
    /\ cycles = 0
    /\ stagnant = 0
    /\ lastCycle = NoCycle
    /\ req = NoRequest
    /\ resp = NoResponse
    /\ instances = 1
    /\ page = NoPage
    /\ extracted = NothingExtracted

pairFrame == <<options, maxResults, pc, scraperVars, apiVars, extVars>>

\* part_004, line 79: `const scraper = new GoogleMapsBusinessScraper({...})`
\* is local to the call; line 5 is the instance of the module
ModuleScraper(fresh) == 1
HandlerScraper(fresh) == fresh

\* part_004, lines 58-96: the call passes the validation, builds its scraper
\* and calls scrapeBusinesses on it
pair_Accept ==
    \E h \in Handlers :
        /\ handlers[h].pc = "request"
        /\ scrapers' = Append(scrapers, NewScraper)
        /\ handlers' = [handlers EXCEPT
                           ![h].pc = "running",
                           ![h].scraper = HandlerScraper(Len(scrapers) + 1)]
        /\ UNCHANGED pairFrame

\* part_003, lines 630-667: the run of the call visits its next item; the
\* record carries the query of the run (line 561)
pair_Item ==
    \E h \in Handlers, o \in Outcomes :
        LET s == handlers[h].scraper
            rec == [searchQuery |-> handlers[h].query,
                    resultIndex |-> Len(handlers[h].out) + 1]
        IN  /\ handlers[h].pc = "running"
            /\ handlers[h].left > 0
            /\ scrapers' = [scrapers EXCEPT
                   ![s].results = IF o = "ok" THEN Append(@, rec) ELSE @,
                   ![s].stats = IF o = "ok"
                                THEN [@ EXCEPT !.successful = @ + 1,
                                               !.processed = @ + 1]
                                ELSE IF o = "notfound"
                                THEN [@ EXCEPT !.failed = @ + 1,
                                               !.processed = @ + 1]
                                ELSE [@ EXCEPT !.failed = @ + 1]]
            /\ handlers' = [handlers EXCEPT ![h].left = @ - 1,
                                            ![h].out = Append(@, o)]
            /\ UNCHANGED pairFrame

\* part_004, lines 96-118: scrapeBusinesses returned this.results; the
\* response holds the list and a copy of scraper.stats
pair_Respond ==
    \E h \in Handlers :
        /\ handlers[h].pc = "running"
        /\ handlers[h].left = 0
        /\ handlers' = [handlers EXCEPT
                           ![h].pc = "responded",
                           ![h].response = scrapers[handlers[h].scraper]]
        /\ UNCHANGED scrapers
        /\ UNCHANGED pairFrame

NextPair == pair_Accept \/ pair_Item \/ pair_Respond

SpecPair == InitPair /\ [][NextPair]_vars

\* ------------------------------------------------------------ properties
\* scrapeBusinesses returned a list
Returned == pc = "done" /\ outcome = "returned"
\* ... from scrapeParallel
ReturnedConcurrent == Returned /\ phase = "par"
\* ... from scrapeSequential, called directly
ReturnedSequential == Returned /\ phase = "seq" /\ ~fellBack
\* ... from scrapeSequential, called by the catch block
ReturnedFallback == Returned /\ phase = "seq" /\ fellBack

\* the outcomes of the items dispatched by the strategy that returned
Dispatched == IF phase = "par" THEN parOut ELSE seqOut

\* the records of the items of `out` that were extracted with a name, in
\* discovery order
RECURSIVE Extracted(_, _)
Extracted(out, k) ==
    IF k > Len(out) THEN <<>>
    ELSE (IF out[k] = "ok"
          THEN <<[name |-> "Biz", resultIndex |-> k, googleMapsUrl |-> businessUrls[k]]>>
          ELSE <<>>) \o Extracted(out, k + 1)

\* C1: whenever scrapeBusinesses returns a list, processed equals
\* successful + failed.
C1_ProcessedIsSuccessfulPlusFailed ==
    Returned => stats.processed = stats.successful + stats.failed

\* C2: whenever scrapeBusinesses returns a list, successful equals its
\* length (sequential, concurrent, and after a fallback).
C2_SuccessfulIsLength ==
    Returned => stats.successful = Len(returned)

\* a fallback run returned records of the abandoned concurrent attempt and
\* of the sequential pass
C2_Witness ==
    /\ ReturnedFallback
    /\ Count(seqOut, "ok") > 0
    /\ Len(returned) > Count(seqOut, "ok")

\* C3: no returned record has the name 'Not Found'.
C3_NoNotFoundReturned ==
    Returned => \A k \in 1..Len(returned) : returned[k].name # NotFound

\* a list was returned by a run in which an extraction gave 'Not Found'
C3_Witness ==
    /\ Returned
    /\ Len(returned) > 0
    /\ Count(Dispatched, "notfound") > 0

\* C4: every dispatched item whose record has the name 'Not Found' is left
\* out of the returned list and counted once in failed: with no other
\* attempt in the run, failed is the number of items that gave 'Not Found'
\* or threw, and the list holds the other items.
C4_NotFoundCountsAsFailed ==
    (Returned /\ ~fellBack) =>
        /\ stats.failed = Count(Dispatched, "notfound") + Count(Dispatched, "error")
        /\ Len(returned) = Count(Dispatched, "ok")

\* C5: the resultIndex values of a list returned by the concurrent strategy
\* are strictly increasing and each is the discovery position of the record's
\* URL, whatever the order in which the tasks settled.
StrictlyIncreasing(recs) ==
    \A j, k \in 1..Len(recs) : j < k => recs[j].resultIndex < recs[k].resultIndex
InDiscoveryOrder(recs) ==
    \A k \in 1..Len(recs) :
        /\ recs[k].resultIndex \in 1..Len(businessUrls)
        /\ recs[k].googleMapsUrl = businessUrls[recs[k].resultIndex]
C5_ResultIndexIncreasing ==
    /\ pc = "par_await" => StrictlyIncreasing(parResults) /\ InDiscoveryOrder(parResults)
    /\ ReturnedConcurrent => StrictlyIncreasing(returned) /\ InDiscoveryOrder(returned)

\* two records were returned although the later one was extracted first
C5_Witness ==
    /\ ReturnedConcurrent
    /\ outOfOrder
    /\ Len(returned) >= 2

\* C6: the concurrent strategy dispatches consecutive batches of at most
\* maxConcurrency items, ceil(n / maxConcurrency) batches in all; an item of
\* a later batch is not started while an item of the current batch is
\* unresolved, so at most maxConcurrency items are in flight.
InFlightItems == {k \in 1..Len(parOut) : parOut[k] = "inflight"}
CeilDiv(n, d) == (n + d - 1) \div d
C7_WorkerFailureIsolated ==
    /\ (phase = "par" /\ parOut # <<>> /\ pc \in {"par_finally", "finish_ok"}) =>
          /\ ~parErr
          /\ \A k \in 1..Len(parOut) : parOut[k] \in Outcomes
          /\ results = Extracted(parOut, 1)
    /\ ReturnedConcurrent => returned = Extracted(parOut, 1)

\* a list was returned although a task threw; a task of the same batch
\* succeeded
C7_Witness ==
    /\ ReturnedConcurrent
    /\ batches = 1
    /\ \E j, k \in 1..Len(parOut) : parOut[j] = "error" /\ parOut[k] = "ok"

\* C8: in the sequential strategy an error on one item is counted in failed
\* and the items after it are still dispatched; scrapeSequential returns
\* the records of the items that succeeded.
C8_SequentialContinues ==
    /\ (phase = "seq" /\ pc = "seq_item") => i = Len(seqOut)
    /\ (phase = "seq" /\ pc = "finish_err") => seqOut = <<>>
    /\ (phase = "seq" /\ pc = "finish_ok") =>
          Len(seqOut) = resultsToProcess(businessUrls)
    /\ (phase = "seq" /\ ~fellBack) =>
          /\ stats.failed = Count(seqOut, "error") + Count(seqOut, "notfound")
          /\ results = Extracted(seqOut, 1)
    /\ ReturnedSequential =>
          /\ Len(seqOut) = resultsToProcess(businessUrls)
          /\ returned = Extracted(seqOut, 1)

\* the first item threw, the second was extracted and returned
C8_Witness ==
    /\ ReturnedSequential
    /\ Len(seqOut) >= 2
    /\ seqOut[1] = "error"
    /\ seqOut[2] = "ok"
    /\ Len(returned) > 0

\* C9: if the feed holds no item when the scroller stops, the run fails and
\* returns no list, in either strategy.
C9_EmptyFeedFails ==
    zeroFeed => ~Returned

\* C10: if the discovery snapshot is empty, the run fails: no list is
\* returned.
C10_EmptySnapshotFails ==
    Returned => businessUrls # <<>>

\* C11: when the target exceeds the number of items found (at least one),
\* a run that returns, with no other attempt before it, has processed equal
\* to the number of items found, not to the target.
C11_ProcessedIsFound ==
    (Returned /\ ~fellBack /\ Len(businessUrls) >= 1 /\ Len(businessUrls) < maxResults) =>
        stats.processed = Len(businessUrls)

\* C12: the list returned by a successful run has at most maxResults
\* records, also after a fallback from concurrent to sequential.
C12_AtMostMaxResults ==
    Returned => Len(returned) <= maxResults

\* Cluster.launch threw: the run fell back and no cluster was ever launched
PoolInitFailed == fellBack /\ cluster = "none"

C17_NavigationFailureIsFatal ==
    navFailed =>
        /\ seqOut = <<>>
        /\ pc = "done" => outcome = "thrown"

C19_CountersOnlyAfterJoin ==
    [][(/\ pc = "par_await" /\ pc' = "par_await" /\ i' = i
        /\ \E k \in 1..Len(slots') : slots'[k] = Pending)
       => (/\ stats'.processed = stats.processed
           /\ stats'.successful = stats.successful
           /\ stats'.failed = stats.failed)]_vars

\* the request has been answered with the validation error
Rejected400 == pc = "responded" /\ resp.status = 400
\* no scraper was built and no browser or cluster launched
NothingAllocated ==
    /\ instances = 0
    /\ browser = "none"
    /\ cluster = "none"
    /\ discBrowser = "none"

\* C13: a request whose maxResults exceeds 500, or whose query is missing
\* or empty after trimming, is answered with the validation error, and at no
\* moment has a scraper been built or a browser session launched for it.
C13_InvalidRejectedFirst ==
    (\/ req.maxResults > Num(500)
     \/ ~req.hasQuery
     \/ \A k \in 1..Len(req.query) : req.query[k] = " ") =>
        /\ NothingAllocated
        /\ pc \in {"request", "responded"}
        /\ pc = "responded" => resp.status = 400

\* a request with a good query and maxResults above 500 has been rejected
C13_Witness ==
    /\ Rejected400
    /\ req.hasQuery /\ trim(req.query) # <<>>
    /\ req.maxResults > Num(500)
    /\ NothingAllocated

\* C14: a request whose maxResults is below 1 is rejected with the
\* validation error before any browser session is opened.
C14_BelowOneRejected ==
    req.maxResults < Num(1) =>
        /\ browser = "none" /\ cluster = "none" /\ discBrowser = "none"
        /\ pc = "responded" => resp.status = 400

\* the names the scraper and the endpoint give to the sequential mode
SequentialNames == {"sequential", "sequential-standard"}

\* C16: the stats.mode of a successful response names the mode actually
\* used: it is a sequential mode exactly when the list was returned by the
\* sequential strategy, also after a fallback.
C16_ResponseModeIsModeUsed ==
    (pc = "responded" /\ resp.status = 200) =>
        (resp.stats.mode \in SequentialNames <=> phase = "seq")

\* C20: the request field mode selects the strategy the run is dispatched
\* with: 'parallel' the concurrent one, 'sequential' the sequential one.
C20_ModeSelectsStrategy ==
    phase # "none" =>
        (req.mode = "parallel" <=> (phase = "par" \/ fellBack))

\* the URLs of a list are pairwise distinct
Distinct(urls) == \A j, k \in 1..Len(urls) : j # k => urls[j] # urls[k]

\* C21: the URLs of the discovery snapshot are pairwise distinct: an address
\* exposed by more than one entry link is dispatched once.
C21_SnapshotUrlsDistinct ==
    Distinct(businessUrls)

\* handleInfiniteScroll has returned and its caller has not yet gone on
ScrollReturned == pc = "snapshot"

\* C22: the scroller stops as soon as the number of consecutive cycles
\* without growth of the item count reaches the threshold (2 standard, 3
\* pro): the loop never goes on with that many stagnant cycles behind it.
C22_StopsOnStagnation ==
    pc = "scroll" => stagnant < maxConsecutiveFailures

\* C23: one call of the scroller performs at most maxScrollAttempts scroll
\* cycles, whatever their outcomes.
C23_AtMostMaxScrollAttemptsCycles ==
    cycles <= options.maxScrollAttempts

\* C25: a cycle stops the loop for 'end of feed' exactly when the container
\* is at its bottom and the item count did not grow in the cycle; a cycle
\* that added items leaves the loop only by the attempt cap; no scroll is
\* issued in a cycle that starts with the item count at the target.
C25_EndOfFeed ==
    /\ lastCycle.break = "bottom" <=>
          (lastCycle.kind = "scrolled" /\ lastCycle.isAtBottom /\ lastCycle.newResults <= 0)
    /\ (ScrollReturned /\ lastCycle.kind = "scrolled" /\ lastCycle.newResults > 0) =>
          scrollAttempts >= options.maxScrollAttempts
    /\ lastCycle.scrolled => feed - lastCycle.newResults < maxResults

\* C30: when handleInfiniteScroll returns, stats.scrollAttempts equals the
\* scrollAttempts it returns.
C30_StatsScrollAttempts ==
    ScrollReturned => stats.scrollAttempts = scrollResult.scrollAttempts

\* C24: handleInfiniteScroll terminates for every sequence of cycle
\* outcomes: the loop is left, and every iteration that does not leave it
\* raises scrollAttempts, or leaves it as it is and raises
\* consecutiveFailures.
C24_ScrollerTerminates ==
    /\ <>(pc = "snapshot")
    /\ [][(pc = "scroll" /\ pc' = "scroll") =>
             \/ scrollAttempts' > scrollAttempts
             \/ scrollAttempts' = scrollAttempts
                /\ consecutiveFailures' > consecutiveFailures]_vars

\* the scroller has returned after more iterations than maxScrollAttempts
C24_Witness ==
    /\ pc = "snapshot"
    /\ cycles > options.maxScrollAttempts

\* C27: extractBusinessData returns a record for every combination of
\* present and absent page elements: a text, link or phone field whose
\* element is absent is 'Not Found' whatever the other elements are, a field
\* whose element is present holds that element's value, and coordinates are
\* null exactly when the page address has no '@lat,lng' pattern.
C27_MissingFieldsAreNotFound ==
    /\ pc = "extract" => ENABLED extractBusinessData_Call
    /\ pc = "extracted" =>
          /\ extracted.returned
          /\ \A f \in TextFields :
                extracted[f] = IF page.els[f].present
                               THEN trim(page.els[f].textContent)
                               ELSE NotFoundText
          /\ extracted.website = IF page.websiteLink.present
                                 THEN page.websiteLink.href
                                 ELSE NotFoundText
          /\ ~page.phoneNumber.present => extracted.phone = NotFoundText
          /\ page.phoneNumber.present =>
                /\ extracted.phone # NotFoundText
                /\ extracted.phone = <<"5">> \/ extracted.phone = <<"Phone:", "5">>
          /\ extracted.coordinates = NullCoordinates <=> ~urlMatch(page.href)
          /\ urlMatch(page.href) =>
                extracted.coordinates =
                    <<parseFloat(page.href.lat), parseFloat(page.href.lng)>>
          /\ extracted.searchQuery = page.query
          /\ extracted.resultIndex = page.resultIndex

\* a record was returned for a page with an absent element, a present
\* element and no coordinates in its address
C27_Witness ==
    /\ pc = "extracted"
    /\ ~page.els["name"].present
    /\ page.els["address"].present
    /\ ~page.phoneNumber.present
    /\ page.websiteLink.present
    /\ ~page.href.at
    /\ extracted.name = NotFoundText
    /\ extracted.address = <<"v">>

\* the records the sequential pass of a fallback run added to the list, and
\* the records the abandoned concurrent attempt left in it
Fresh == SubSeq(returned, Len(returned) - Count(seqOut, "ok") + 1, Len(returned))
Stale == SubSeq(returned, 1, Len(returned) - Count(seqOut, "ok"))
InSnapshot(recs, urls) ==
    \A k \in 1..Len(recs) :
        /\ recs[k].resultIndex \in 1..Len(urls)
        /\ recs[k].googleMapsUrl = urls[recs[k].resultIndex]
IsPrefix(s, t) == Len(s) <= Len(t) /\ SubSeq(t, 1, Len(s)) = s

\* C26: the resultIndex of every returned record is the 1-based position, in
\* the snapshot it was dispatched from, of the URL that was navigated to, in
\* both strategies; the records of a pass are those of the items that gave a
\* named record, in snapshot order, so the resultIndex sequence is a
\* function of the snapshot and of the outcomes of the items.  The records a
\* concurrent attempt stored are at their snapshot positions when it ends,
\* and a fallback pass adds its records behind them without changing them.
C26_ResultIndexIsSnapshotPosition ==
    /\ [](/\ (Returned /\ ~fellBack) =>
                /\ InSnapshot(returned, businessUrls)
                /\ returned = Extracted(Dispatched, 1)
          /\ (pc = "par_finally" /\ ~parErr) =>
                /\ InSnapshot(results, businessUrls)
                /\ results = Extracted(parOut, 1)
          /\ ReturnedFallback =>
                /\ InSnapshot(Fresh, businessUrls)
                /\ Fresh = Extracted(seqOut, 1)
                /\ StrictlyIncreasing(Stale))
    /\ [][fellBack => IsPrefix(results, results')]_vars

\* a sequential run returned one record, of the second URL of its snapshot
C26_Witness ==
    /\ ReturnedSequential
    /\ seqOut = <<"notfound", "ok">>
    /\ Len(returned) = 1
    /\ returned[1].resultIndex = 2

\* C28: every call of the handler runs on a scraper of its own: the list of
\* a response holds only records whose searchQuery is the query of its
\* request, one for each of its items that gave a named record, and its
\* counters count the items of its request alone, however the calls
\* interleave.
C28_OwnScraperPerRequest ==
    /\ \A g, h \in DOMAIN handlers :
          (g # h /\ handlers[g].scraper # 0) =>
              /\ handlers[g].scraper # handlers[h].scraper
              /\ handlers[g].scraper # 1
    /\ \A h \in DOMAIN handlers :
          handlers[h].pc = "responded" =>
              LET r == handlers[h].response IN
              /\ \A k \in 1..Len(r.results) :
                    r.results[k].searchQuery = handlers[h].query
              /\ Len(r.results) = Count(handlers[h].out, "ok")
              /\ r.stats.successful = Count(handlers[h].out, "ok")
              /\ r.stats.failed = Count(handlers[h].out, "notfound")
                                     + Count(handlers[h].out, "error")

\* the call that was accepted second has responded with a record while the
\* first, for another query, is still running and has stored a record
C28_Witness ==
    /\ DOMAIN handlers = Handlers
    /\ handlers[1].pc = "running" /\ handlers[1].scraper = 2
    /\ Count(handlers[1].out, "ok") > 0
    /\ handlers[2].pc = "responded" /\ handlers[2].scraper = 3
    /\ Len(handlers[2].response.results) > 0
    /\ handlers[1].query # handlers[2].query

\* C29: when the concurrent attempt throws after batches of it completed
\* and the run falls back, nothing the abandoned attempt recorded remains:
\* the returned list holds the records of the sequential pass alone, one for
\* each item at most, and successful, failed and processed count the items
\* of that pass alone.
C29_FallbackStartsClean ==
    ReturnedFallback =>
        /\ Len(returned) = Count(seqOut, "ok")
        /\ stats.successful = Count(seqOut, "ok")
        /\ stats.failed = Count(seqOut, "notfound") + Count(seqOut, "error")
        /\ stats.processed <= Len(seqOut)
====
